---- MODULE Spec2Model ----
(***************************************************************************)
(* Model of piqrypt-session (src/__init__.py): AgentMember, the per-agent *)
(* hash chain, and AgentSession, the coordinator that fans out pairwise   *)
(* handshakes and stamps unilateral and co-signed events.                 *)
(*                                                                         *)
(* Every public method is one action, AgentMember.stamp as a caller       *)
(* reaches it through get_agent included.  The collaborator calls that    *)
(* can raise (signing, persisting) are numbered in execution order inside *)
(* a handler; the input "fuse" names the call that raises (0: none does). *)
(* The clock is read where the code reads it: start() takes one reading   *)
(* for started_at and one more for the record of every pair.              *)
(* A handler is evaluated over a "world" record w that carries the        *)
(* mutable objects and the pending exception, so that an exception skips  *)
(* the rest of the handler exactly as it does in Python.                  *)
(*                                                                         *)
(* Digests of events are ranks in the table of the events hashed so far   *)
(* (a perfect hash); digests of payload values are injective images.      *)
(*                                                                         *)
(* Spec runs the public methods on every session the constructor yields;  *)
(* SpecDistinct on the sessions built from entries of distinct names;     *)
(* SpecStart runs start() alone, failures and retries included;           *)
(* SpecRedact runs stamp() over many payloads; SpecView adds a caller who *)
(* reads an agent's events and works on the list it got; SpecRace runs    *)
(* two threads of a caller through AgentMember.stamp statement by         *)
(* statement.                                                              *)
(***************************************************************************)
EXTENDS Integers, Sequences, FiniteSets, TLC

\* ------------------------------------------------------------------ bounds

\* Largest clock reading (time.time()).
MaxTime == 1
\* Calls of start(), stamp() and end() that reach the collaborators.
MaxCalls == 3

\* ------------------------------------------------------------ Python values

\* None, the value `x or d` and `if x:` treat as absent.
None == <<>>

Truthy(x) == x # None

\* `x or d`
Or(x, d) == IF Truthy(x) THEN x ELSE d

\* The sentinel previous_hash of the first event of a chain.
Genesis == <<"genesis">>

\* A string value, tagged so that every payload value is a tuple.
Str(s) == <<"str", s>>

\* Dict keys are strings; a key is kept as the sequence of its parts so that
\* endswith and concatenation are computed, e.g. "order_id" = <<"order","_id">>.
K(s) == <<s>>

Concat(key, suffix) == key \o <<suffix>>

EndsWith(key, suffix) == Len(key) > 0 /\ key[Len(key)] = suffix

K_session_id == <<"session", "_id">>
K_event_type == <<"event_type">>
K_aiss_profile == <<"aiss_profile">>
K_peer_agent_id == <<"peer_agent", "_id">>
K_peer_signature == <<"peer_signature">>
K_interaction_hash == <<"interaction", "_hash">>
K_my_role == <<"my_role">>
K_peer_name == <<"peer_name">>

\* {} and {**d, **e}
EmptyDict == [k \in {} |-> None]

Update(d, e) ==
  [k \in (DOMAIN d) \cup (DOMAIN e) |-> IF k \in DOMAIN e THEN e[k] ELSE d[k]]

Item(k, v) == [x \in {k} |-> v]

\* _h(value): SHA-256 of str(value), an injective image of the value.
H(value) == <<"sha256", value>>

\* ------------------------------------------------------------ collaborators

\* identity["agent_id"] and identity["private_key_bytes"] of the agent `name`.
AgentId(name) == <<"agent_id", name>>

PrivateKey(name) == <<"private_key", name>>

\* aiss.compute_event_hash(event): a perfect hash.  The digest of an event is
\* the rank at which it entered the table of the events hashed so far, so two
\* events have one digest exactly when they are the same event.
ComputeEventHash(table, event) ==
  <<"event_hash", CHOOSE i \in 1..Len(table) : table[i] = event>>

Hashed(table, event) == \E i \in 1..Len(table) : table[i] = event

\* The signature the collaborator puts on an event: fixed by the signing key
\* and the payload it signs.
Signature(private_key, payload) == <<"sig", private_key, payload>>

\* aiss.stamp_event(private_key, agent_id, payload, previous_hash)
StampEvent(private_key, agent_id, payload, previous_hash) ==
  [agent_id |-> agent_id,
   payload |-> payload,
   previous_hash |-> previous_hash,
   signature |-> Signature(private_key, payload)]

\* create_identity_proposal(..., metadata={session_id, name})
CreateIdentityProposal(agent_id, sid, name) ==
  <<"proposal", agent_id, sid, name>>

\* create_identity_response(..., proposal, ...)
CreateIdentityResponse(agent_id, proposal) == <<"response", agent_id, proposal>>

T_handshake == <<"a2a_handshake">>

\* build_cosigned_handshake_event(private_key, agent_id, proposal, response,
\*                                previous_hash)
BuildCosignedHandshakeEvent(private_key, agent_id, proposal, response, previous_hash) ==
  StampEvent(private_key, agent_id,
             Update(Update(Item(K_event_type, T_handshake),
                           Item(K("proposal"), proposal)),
                    Item(K("response"), response)),
             previous_hash)

\* ------------------------------------------------------------------- state

VARIABLES
  registry,       \* AgentSession._agents: the names, in dict order
  session_id,     \* AgentSession.session_id
  started,        \* AgentSession.started
  started_at,     \* AgentSession.started_at: <<>> for None, <<t>> once set
  handshakes,     \* AgentSession._handshakes
  previous_hash,  \* AgentMember.previous_hash, per agent name
  events,         \* AgentMember._events, per agent name
  store,          \* the events aiss.store_event has persisted, in order
  digests,        \* the events aiss.compute_event_hash has hashed, in order
  now,            \* the reading of time.time()
  calls,          \* how many calls of start, stamp and end got past their checks
  result,         \* how the last call ended: "ok" or the exception raised
  agents,         \* the names in the list AgentSession(agents) was called with
  view,           \* the list a caller got from AgentMember.events, or None
  threads         \* two threads of the caller inside stamp(), or None

\* What the caller holds.
callerVars == <<agents, view, threads>>

vars == <<registry, session_id, started, started_at, handshakes, previous_hash,
          events, store, digests, now, calls, result, callerVars>>

\* A session exists: the constructor did not raise.
Constructed == registry # <<>>

Names == {registry[i] : i \in 1..Len(registry)}

\* --------------------------------------------------------------- the world

\* The mutable objects a handler works on, the fuse and the pending exception.
World(fuse) ==
  [previous_hash |-> previous_hash, events |-> events, store |-> store,
   digests |-> digests, handshakes |-> handshakes, fuse |-> fuse, err |-> "ok"]

Raised(w) == w.err # "ok"

\* A collaborator call that may raise `kind`.
Call(w, kind) ==
  IF Raised(w) THEN w
  ELSE IF w.fuse = 1 THEN [w EXCEPT !.err = kind]
  ELSE [w EXCEPT !.fuse = IF @ = 0 THEN 0 ELSE @ - 1]

\* aiss.store_event(event)
StoreEvent(w, event) ==
  LET w1 == Call(w, "PersistenceError")
  IN IF Raised(w1) THEN w1 ELSE [w1 EXCEPT !.store = Append(@, event)]

\* Mutant of Commit: the event is appended but the chain head stays behind.
Commit_StaleHead(w, name, event) ==
  IF Raised(w) THEN w
  ELSE [w EXCEPT !.digests = IF Hashed(@, event) THEN @ ELSE Append(@, event),
                 !.events[name] = Append(@, event)]

\* The table after compute_event_hash(event).
Intern(table, event) == IF Hashed(table, event) THEN table ELSE Append(table, event)

\* self.previous_hash = aiss.compute_event_hash(event); self._events.append(event)
Commit(w, name, event) ==
  IF Raised(w) THEN w
  ELSE LET table == Intern(w.digests, event)
       IN [w EXCEPT !.digests = table,
                    !.previous_hash[name] = ComputeEventHash(table, event),
                    !.events[name] = Append(@, event)]

\* ------------------------------------------------------------- AgentMember

\* full_payload of AgentMember.stamp
FullPayload(event_type, payload, sid, peer_id, peer_signature) ==
  LET base == Update(Update(Update(payload, Item(K_event_type, event_type)),
                            Item(K_session_id, sid)),
                     Item(K_aiss_profile, Str("AISS-1")))
      withPeer == IF Truthy(peer_id)
                  THEN Update(base, Item(K_peer_agent_id, peer_id)) ELSE base
  IN IF Truthy(peer_signature)
     THEN Update(withPeer, Item(K_peer_signature, peer_signature)) ELSE withPeer

\* Mutant of MemberEvent: the event is not linked to the chain head.
MemberEvent_Unlinked(w, name, event_type, payload, sid, peer_id, peer_signature) ==
  StampEvent(PrivateKey(name), AgentId(name),
             FullPayload(event_type, payload, sid, peer_id, peer_signature),
             Genesis)

\* The event AgentMember.stamp builds for agent `name` in world w.
MemberEvent(w, name, event_type, payload, sid, peer_id, peer_signature) ==
  StampEvent(PrivateKey(name), AgentId(name),
             FullPayload(event_type, payload, sid, peer_id, peer_signature),
             Or(w.previous_hash[name], Genesis))

\* Mutant of MemberStamp: the chain head and the log are updated before the
\* event is persisted.
MemberStamp_UpdateFirst(w, name, event_type, payload, sid, peer_id, peer_signature) ==
  LET event == MemberEvent(w, name, event_type, payload, sid, peer_id, peer_signature)
  IN StoreEvent(Commit(Call(w, "CryptoError"), name, event), event)

\* AgentMember.stamp: sign, persist, move the chain head, append.
MemberStamp(w, name, event_type, payload, sid, peer_id, peer_signature) ==
  LET event == MemberEvent(w, name, event_type, payload, sid, peer_id, peer_signature)
  IN Commit(StoreEvent(Call(w, "CryptoError"), event), name, event)

\* ------------------------------------------------------- AgentSession.start

T_session_start == <<"session_start">>
T_session_end == <<"session_end">>

\* The payload start() stamps into every agent's memory.
SessionStartPayload(sid, agent_list) ==
  Update(Update(Update(Item(K_session_id, sid),
                       Item(K("participants"),
                            [i \in 1..Len(agent_list) |-> AgentId(agent_list[i])])),
                Item(K("participant_names"), agent_list)),
         Item(K("agent_count"), Len(agent_list)))

\* for agent in agent_list[i..]: agent.stamp("session_start", ...)
RECURSIVE StampSessionStart(_, _, _, _)
StampSessionStart(w, sid, agent_list, i) ==
  IF Raised(w) \/ i > Len(agent_list) THEN w
  ELSE StampSessionStart(
         MemberStamp(w, agent_list[i], T_session_start,
                     SessionStartPayload(sid, agent_list), sid, None, None),
         sid, agent_list, i + 1)

\* Steps 1 to 3 of _handshake_pair: event_a with session_id and peer_name injected.
HandshakeEventA(w, sid, a, b) ==
  LET proposal == CreateIdentityProposal(AgentId(a), sid, a)
      response == CreateIdentityResponse(AgentId(b), proposal)
      built == BuildCosignedHandshakeEvent(PrivateKey(a), AgentId(a), proposal,
                                           response, Or(w.previous_hash[a], Genesis))
  IN [built EXCEPT !.payload = Update(Update(@, Item(K_session_id, sid)),
                                      Item(K_peer_name, Str(b)))]

\* Mutant of HandshakeEventB: the responder answers a proposal of its own.
HandshakeEventB_OwnProposal(w, sid, a, b) ==
  LET proposal == CreateIdentityProposal(AgentId(b), sid, b)
      response == CreateIdentityResponse(AgentId(b), proposal)
      built == BuildCosignedHandshakeEvent(PrivateKey(b), AgentId(b), proposal,
                                           response, Or(w.previous_hash[b], Genesis))
  IN [built EXCEPT !.payload = Update(Update(@, Item(K_session_id, sid)),
                                      Item(K_peer_name, Str(a)))]

\* Step 4 of _handshake_pair: event_b, built from the same proposal and response.
HandshakeEventB(w, sid, a, b) ==
  LET proposal == CreateIdentityProposal(AgentId(a), sid, a)
      response == CreateIdentityResponse(AgentId(b), proposal)
      built == BuildCosignedHandshakeEvent(PrivateKey(b), AgentId(b), proposal,
                                           response, Or(w.previous_hash[b], Genesis))
  IN [built EXCEPT !.payload = Update(Update(@, Item(K_session_id, sid)),
                                      Item(K_peer_name, Str(a)))]

\* _handshake_pair up to the commit of event_a (lines 286-316).
HandshakeSideA(w, sid, a, b) ==
  LET w1 == Call(Call(Call(w, "CryptoError"), "CryptoError"), "CryptoError")
      event_a == HandshakeEventA(w, sid, a, b)
  IN Commit(StoreEvent(w1, event_a), a, event_a)

\* _handshake_pair from the build of event_b to its commit (lines 319-330).
HandshakeSideB(w, sid, a, b) ==
  LET event_b == HandshakeEventB(w, sid, a, b)
  IN Commit(StoreEvent(Call(w, "CryptoError"), event_b), b, event_b)

\* The dict _handshake_pair returns (lines 337-346): w is the world the pair
\* was entered in, done the world after both sides were committed.
HandshakeResult(w, done, sid, a, b, t) ==
  LET event_a == HandshakeEventA(w, sid, a, b)
      event_b == HandshakeEventB(HandshakeSideA(w, sid, a, b), sid, a, b)
  IN [agent_a |-> a, agent_b |-> b,
      agent_a_id |-> AgentId(a), agent_b_id |-> AgentId(b),
      session_id |-> sid,
      event_a_hash |-> ComputeEventHash(done.digests, event_a),
      event_b_hash |-> ComputeEventHash(done.digests, event_b),
      timestamp |-> t]

\* handshake = self._handshake_pair(agent_a, agent_b); self._handshakes.append(handshake)
HandshakePair(w, sid, a, b, t) ==
  LET w1 == HandshakeSideB(HandshakeSideA(w, sid, a, b), sid, a, b)
  IN IF Raised(w1) THEN w1
     ELSE [w1 EXCEPT !.handshakes = Append(@, HandshakeResult(w, w1, sid, a, b, t))]

\* range(i + 1, len(agent_list))
FirstPeer(i) == i + 1

\* Mutant of HandshakeAll: a pair that fails is skipped and the loop goes on.
RECURSIVE HandshakeAll_SkipFailed(_, _, _, _, _, _)
HandshakeAll_SkipFailed(w, sid, agent_list, i, j, clock) ==
  IF Raised(w) \/ i > Len(agent_list) THEN w
  ELSE IF j > Len(agent_list)
       THEN HandshakeAll_SkipFailed(w, sid, agent_list, i + 1, FirstPeer(i + 1), clock)
       ELSE HandshakeAll_SkipFailed(
              [HandshakePair(w, sid, agent_list[i], agent_list[j], Head(clock))
                 EXCEPT !.err = "ok"],
              sid, agent_list, i, j + 1, Tail(clock))

\* for i in range(n): for j in range(i + 1, n): handshake agent_list[i], agent_list[j]
\* `clock` holds the readings time.time() gives at line 345, one per pair to come.
RECURSIVE HandshakeAll(_, _, _, _, _, _)
HandshakeAll(w, sid, agent_list, i, j, clock) ==
  IF Raised(w) \/ i > Len(agent_list) THEN w
  ELSE IF j > Len(agent_list)
       THEN HandshakeAll(w, sid, agent_list, i + 1, FirstPeer(i + 1), clock)
       ELSE HandshakeAll(HandshakePair(w, sid, agent_list[i], agent_list[j], Head(clock)),
                         sid, agent_list, i, j + 1, Tail(clock))

\* The body of start() after the guard and the reading of started_at.
StartBody(w, sid, agent_list, clock) ==
  HandshakeAll(StampSessionStart(w, sid, agent_list, 1),
               sid, agent_list, 1, FirstPeer(1), clock)

\* The pairs start() shakes hands for.
PairCount(n) == (n * (n - 1)) \div 2

\* The collaborator calls start() makes: 2 per session_start, 6 per pair.
StartCalls(n) == 2 * n + 6 * PairCount(n)

\* ------------------------------------------------------- AgentSession.stamp

\* raise kind
Raise(w, kind) == IF Raised(w) THEN w ELSE [w EXCEPT !.err = kind]

\* Mutant of RequireStarted: the check is left out.
RequireStarted_Missing(w) == w

\* AgentSession._require_started
RequireStarted(w) == IF ~started THEN Raise(w, "RuntimeError") ELSE w

\* AgentSession._get_agent
GetAgent(w, name) == IF name \notin Names THEN Raise(w, "KeyError") ELSE w

\* No peer: None or "", which `if peer:` treats alike.
NoPeer == ""

\* Mutant of KeptAsIs: the "_id" suffix is forgotten.
KeptAsIs_HashOnly(key) == EndsWith(key, "_hash") \/ key = K_session_id

\* key.endswith("_hash") or key.endswith("_id") or key == "session_id"
KeptAsIs(key) ==
  EndsWith(key, "_hash") \/ EndsWith(key, "_id") \/ key = K_session_id

\* The loop that builds safe_payload; payload is the dict's items in order.
RECURSIVE SafePayloadFrom(_, _, _)
SafePayloadFrom(payload, i, safe) ==
  IF i > Len(payload) THEN safe
  ELSE LET key == payload[i][1]
           value == payload[i][2]
       IN SafePayloadFrom(payload, i + 1,
            IF KeptAsIs(key) THEN Update(safe, Item(key, value))
            ELSE Update(safe, Item(Concat(key, "_hash"), H(value))))

SafePayload(payload) == SafePayloadFrom(payload, 1, EmptyDict)

\* _h(f"{agent.agent_id}:{peer_agent.agent_id}:{time.time()}")
InteractionHash(agent_id, peer_id, t) == H(<<"fstr", agent_id, peer_id, t>>)

\* The payload of one side of a co-signed stamp.
SidePayload(safe, interaction_hash, role) ==
  Update(Update(safe, Item(K_interaction_hash, interaction_hash)),
         Item(K_my_role, Str(role)))

\* event_agent of the co-signed branch, for the world w it is stamped in.
InitiatorEvent(w, sid, agent_name, event_type, safe, peer, t) ==
  MemberEvent(w, agent_name, event_type,
              SidePayload(safe, InteractionHash(AgentId(agent_name), AgentId(peer), t),
                          "initiator"),
              sid, AgentId(peer), None)

\* Agent stamps its side (lines 395-404).
StampInitiator(w, sid, agent_name, event_type, safe, peer, t) ==
  MemberStamp(w, agent_name, event_type,
              SidePayload(safe, InteractionHash(AgentId(agent_name), AgentId(peer), t),
                          "initiator"),
              sid, AgentId(peer), None)

\* Mutant of StampResponder: the responder's side takes the caller's event
\* type and hashes the pair of ids the other way round.
StampResponder_OwnView(w, sid, agent_name, event_type, safe, peer, t, event_agent) ==
  MemberStamp(w, peer, event_type,
              SidePayload(safe, InteractionHash(AgentId(peer), AgentId(agent_name), t),
                          "responder"),
              sid, AgentId(agent_name), event_agent.signature)

\* Peer stamps its side (lines 407-417).
StampResponder(w, sid, agent_name, event_type, safe, peer, t, event_agent) ==
  MemberStamp(w, peer, Concat(event_type, "_received"),
              SidePayload(safe, InteractionHash(AgentId(agent_name), AgentId(peer), t),
                          "responder"),
              sid, AgentId(agent_name), event_agent.signature)

\* Mutant of CoSigned: the peer stamps first, the agent second.
CoSigned_ResponderFirst(w, sid, agent_name, event_type, safe, peer, t) ==
  LET w1 == GetAgent(w, peer)
      event_agent ==
        InitiatorEvent(
          MemberStamp(w1, peer, Concat(event_type, "_received"),
                      SidePayload(safe,
                                  InteractionHash(AgentId(agent_name), AgentId(peer), t),
                                  "responder"),
                      sid, AgentId(agent_name), None),
          sid, agent_name, event_type, safe, peer, t)
      w2 == StampResponder(w1, sid, agent_name, event_type, safe, peer, t, event_agent)
  IN StampInitiator(w2, sid, agent_name, event_type, safe, peer, t)

\* Mutant of CoSigned: the peer is looked up only after the agent has stamped.
CoSigned_LateLookup(w, sid, agent_name, event_type, safe, peer, t) ==
  LET event_agent == InitiatorEvent(w, sid, agent_name, event_type, safe, peer, t)
      w2 == GetAgent(StampInitiator(w, sid, agent_name, event_type, safe, peer, t), peer)
  IN StampResponder(w2, sid, agent_name, event_type, safe, peer, t, event_agent)

\* The co-signed branch of stamp() (lines 389-419).
CoSigned(w, sid, agent_name, event_type, safe, peer, t) ==
  LET w1 == GetAgent(w, peer)
      event_agent == InitiatorEvent(w1, sid, agent_name, event_type, safe, peer, t)
      w2 == StampInitiator(w1, sid, agent_name, event_type, safe, peer, t)
  IN StampResponder(w2, sid, agent_name, event_type, safe, peer, t, event_agent)

\* AgentSession.stamp(agent_name, event_type, payload, peer)
StampBody(w, sid, agent_name, event_type, payload, peer, t) ==
  LET w1 == GetAgent(RequireStarted(w), agent_name)
      safe == SafePayload(payload)
  IN IF peer # NoPeer
     THEN CoSigned(w1, sid, agent_name, event_type, safe, peer, t)
     ELSE MemberStamp(w1, agent_name, event_type, safe, sid, None, None)

\* --------------------------------------------------------- AgentSession.end

RECURSIVE SumLen(_, _, _)
SumLen(ev, agent_list, i) ==
  IF i > Len(agent_list) THEN 0
  ELSE Len(ev[agent_list[i]]) + SumLen(ev, agent_list, i + 1)

\* sum(len(a.events) for a in self._agents.values())
TotalEvents(ev, agent_list) == SumLen(ev, agent_list, 1)

SessionEndPayload(sid, duration, total_events) ==
  Update(Update(Item(K_session_id, sid),
                Item(K("duration_seconds"), duration)),
         Item(K("total_events"), total_events))

\* for agent in self._agents.values(): agent.stamp("session_end", ...)
RECURSIVE StampSessionEnd(_, _, _, _, _)
StampSessionEnd(w, sid, agent_list, payload, i) ==
  IF Raised(w) \/ i > Len(agent_list) THEN w
  ELSE StampSessionEnd(
         MemberStamp(w, agent_list[i], T_session_end, payload, sid, None, None),
         sid, agent_list, payload, i + 1)

\* AgentSession.end()
EndBody(w, sid, agent_list, t) ==
  LET w0 == RequireStarted(w)
      \* ended_at - self.started_at raises on None
      w1 == IF started_at = None THEN Raise(w0, "TypeError") ELSE w0
  IN IF Raised(w1) THEN w1
     ELSE StampSessionEnd(w1, sid, agent_list,
            SessionEndPayload(sid, t - started_at[1],
                              TotalEvents(w1.events, agent_list)),
            1)

\* AgentSession.summary()
Summary ==
  [session_id |-> session_id,
   started_at |-> started_at,
   agents |-> [n \in Names |->
                 [agent_id |-> AgentId(n),
                  event_count |-> Len(events[n]),
                  last_hash |-> previous_hash[n]]],
   handshakes |-> handshakes,
   handshake_count |-> Len(handshakes),
   total_events |-> TotalEvents(events, registry)]

\* AgentSession.export(): the guard, then a read of the summary and the logs.
ExportBody(w) == RequireStarted(w)

\* ------------------------------------------------------------------ actions

\* The lists AgentSession(agents) is called with, by the names of the entries.
ConstructionLists == {<<"A">>, <<"A", "A">>, <<"A", "B">>, <<"A", "B", "C">>}

\* self._agents[name] = AgentMember(...) for each entry: the keys of the dict,
\* in insertion order; a name that is already a key keeps its place.
RECURSIVE RegistryFrom(_, _, _)
RegistryFrom(agent_defs, i, keys) ==
  IF i > Len(agent_defs) THEN keys
  ELSE RegistryFrom(agent_defs, i + 1,
         IF \E k \in 1..Len(keys) : keys[k] = agent_defs[i]
         THEN keys ELSE Append(keys, agent_defs[i]))

\* AgentSession.__init__: ValueError for a list of fewer than 2 entries.
Construct(agent_defs) ==
  IF Len(agent_defs) < 2
  THEN [err |-> "ValueError", registry |-> <<>>]
  ELSE [err |-> "ok", registry |-> RegistryFrom(agent_defs, 1, <<>>)]

SessionIds == {"sess_1"}

\* A name no registry holds.
Stranger == "Z"

EventTypes == {<<"advice">>}

\* Caller payloads, each the items of a dict in insertion order.
Payloads ==
  { << <<K("symbol"), Str("AAPL")>>, <<<<"order", "_id">>, Str("X1")>>,
       <<K_interaction_hash, H(Str("mine"))>>, <<K_session_id, "sess_x">>,
       <<K_peer_agent_id, Str("nobody")>> >> }

Init ==
  /\ agents \in ConstructionLists
  /\ registry = Construct(agents).registry
  /\ session_id \in SessionIds
  /\ started = FALSE
  /\ started_at = None
  /\ handshakes = <<>>
  /\ previous_hash = [n \in Names |-> None]
  /\ events = [n \in Names |-> <<>>]
  /\ store = <<>>
  /\ digests = <<>>
  /\ now = 0
  /\ calls = 0
  /\ result = Construct(agents).err
  /\ view = None
  /\ threads = None

\* time.time() moves on between calls.
Tick ==
  /\ now < MaxTime
  /\ now' = now + 1
  /\ UNCHANGED <<registry, session_id, started, started_at, handshakes,
                 previous_hash, events, store, digests, calls, result>>
  /\ UNCHANGED callerVars

\* A call the handler turned away before it touched anything.
Rejected(w) == w.err \in {"RuntimeError", "KeyError"}

\* The world a handler leaves behind becomes the state.
Install(w) ==
  /\ previous_hash' = w.previous_hash
  /\ events' = w.events
  /\ store' = w.store
  /\ digests' = w.digests
  /\ handshakes' = w.handshakes
  /\ result' = w.err
  /\ calls' = IF Rejected(w) THEN calls ELSE calls + 1

\* Mutant of StartGuard: the check is left out.
StartGuard_Missing(w) == w

\* if self.started: raise RuntimeError
StartGuard(w) == IF started THEN Raise(w, "RuntimeError") ELSE w

\* What time.time() can give in n readings to come: the clock does not go back.
Readings(n) ==
  {clock \in [1..n -> now..MaxTime] : \A k \in 1..(n - 1) : clock[k] <= clock[k + 1]}

\* A start() that is turned away calls no collaborator.
StartFuses == IF started THEN {0} ELSE 0..StartCalls(Len(registry))

\* The pairs start() gets through when the collaborator call `fuse` raises:
\* all of them when none does, none when a session_start stamp fails, and
\* otherwise the pairs before the one whose 6 calls hold the failing call.
PairsDone(fuse) ==
  IF started THEN 0
  ELSE IF fuse = 0 THEN PairCount(Len(registry))
  ELSE IF fuse <= 2 * Len(registry) THEN 0
  ELSE (fuse - 2 * Len(registry) - 1) \div 6

\* The readings of line 345 during one start(): one per pair it gets through.
StartClocks(fuse) == Readings(PairsDone(fuse))

\* AgentSession.start(): started_at is the reading of line 231, every record
\* takes a reading of its own, and the clock is left at the last one made.
Start(fuse, clock) ==
  /\ Constructed
  /\ calls < MaxCalls
  /\ LET w0 == StartGuard(World(fuse))
         w == StartBody(w0, session_id, registry, clock)
         read == Len(w.handshakes) - Len(handshakes)
     IN /\ Install(w)
        /\ started_at' = IF Raised(w0) THEN started_at ELSE <<now>>
        /\ started' = IF Raised(w) THEN started ELSE TRUE
        /\ now' = IF read = 0 THEN now ELSE clock[read]
  /\ UNCHANGED <<registry, session_id>>
  /\ UNCHANGED callerVars

StartCall ==
  \E fuse \in StartFuses : \E clock \in StartClocks(fuse) : Start(fuse, clock)

\* start() with no failure of a collaborator.
StartNoFailure == \E clock \in StartClocks(0) : Start(0, clock)

\* AgentSession.stamp(agent_name, event_type, payload, peer)
Stamp(agent_name, event_type, payload, peer, fuse) ==
  /\ Constructed
  /\ calls < MaxCalls
  /\ Install(StampBody(World(fuse), session_id, agent_name, event_type,
                       payload, peer, now))
  /\ UNCHANGED <<registry, session_id, started, started_at, now>>
  /\ UNCHANGED callerVars

\* The names stamp() is called with: the first two registered and a stranger.
StampNames == {registry[i] : i \in {1, 2} \cap DOMAIN registry} \cup {Stranger}

\* The collaborator calls stamp() makes: 2 per side.
StampCalls(peer) == IF peer = NoPeer THEN 2 ELSE 4

\* The collaborator calls that can fail in one stamp(): none when the call is
\* turned away by _require_started or _get_agent.
StampFuses(agent_name, peer) ==
  IF ~started \/ agent_name \notin Names \/ (peer # NoPeer /\ peer \notin Names)
  THEN {0} ELSE 0..StampCalls(peer)

StampCall ==
  \E agent_name \in StampNames, event_type \in EventTypes, payload \in Payloads,
     peer \in StampNames \cup {NoPeer} :
    \E fuse \in StampFuses(agent_name, peer) :
      Stamp(agent_name, event_type, payload, peer, fuse)

\* AgentSession.end()
End(fuse) ==
  /\ Constructed
  /\ calls < MaxCalls
  /\ Install(EndBody(World(fuse), session_id, registry, now))
  /\ UNCHANGED <<registry, session_id, started, started_at, now>>
  /\ UNCHANGED callerVars

\* The collaborator calls that can fail in one end(): 2 per agent.
EndFuses == IF ~started THEN {0} ELSE 0..(2 * Len(registry))

EndCall == \E fuse \in EndFuses : End(fuse)

\* AgentSession.export(output_path)
Export ==
  /\ Constructed
  /\ result' = ExportBody(World(0)).err
  /\ UNCHANGED <<registry, session_id, started, started_at, handshakes,
                 previous_hash, events, store, digests, now, calls>>
  /\ UNCHANGED callerVars

\* AgentSession.summary()
SummaryCall ==
  /\ Constructed
  /\ result' = "ok"
  /\ UNCHANGED <<registry, session_id, started, started_at, handshakes,
                 previous_hash, events, store, digests, now, calls>>
  /\ UNCHANGED callerVars

\* session.get_agent(name).stamp(event_type, payload, session_id, peer_id,
\* peer_signature): the caller stamps through the member get_agent hands out.
\* AgentMember.stamp has no check of the session's state, takes the payload as
\* it is and the session_id it is given.
AgentMemberStamp(name, event_type, payload, sid, peer_id, peer_signature, fuse) ==
  /\ Constructed
  /\ calls < MaxCalls
  /\ Install(MemberStamp(GetAgent(World(fuse), name), name, event_type, payload,
                         sid, peer_id, peer_signature))
  /\ UNCHANGED <<registry, session_id, started, started_at, now>>
  /\ UNCHANGED callerVars

\* A session_id that is not this session's.
OtherSession == "sess_other"

\* The payloads of the caller's own stamps: a dict with a raw field, and one
\* with a field named as a digest.
MemberPayloads == {Item(K("x"), 1), Item(<<"x", "_hash">>, Str("abc"))}

\* The names the caller asks get_agent for: the first registered and a stranger.
MemberNames == {registry[i] : i \in {1} \cap DOMAIN registry} \cup {Stranger}

\* The collaborator calls that can fail in one AgentMember.stamp: 2.
MemberFuses(name) == IF name \notin Names THEN {0} ELSE 0..2

AgentMemberStampCall ==
  \E name \in MemberNames, event_type \in EventTypes, payload \in MemberPayloads,
     sid \in {session_id, OtherSession} :
    \E fuse \in MemberFuses(name) :
      AgentMemberStamp(name, event_type, payload, sid, None, None, fuse)

Next ==
  \/ Tick
  \/ StartCall
  \/ StampCall
  \/ EndCall
  \/ Export
  \/ SummaryCall
  \/ AgentMemberStampCall

Spec == Init /\ [][Next]_vars

\* ------------------------------------------------------ reading the logs

\* event["payload"][key] = value, for a key the payload may lack.
Field(event, key, value) ==
  key \in DOMAIN event.payload /\ event.payload[key] = value

HasField(event, key) == key \in DOMAIN event.payload

IsType(event, event_type) == Field(event, K_event_type, event_type)

IsRole(event, role) == Field(event, K_my_role, Str(role))

\* The digest of an event, as compute_event_hash gives it.
DigestOf(event) ==
  IF Hashed(digests, event) THEN ComputeEventHash(digests, event) ELSE <<"unhashed">>

\* chain_head: previous_hash, with the sentinel standing in for None.
ChainHead(n) == Or(previous_hash[n], Genesis)

Last(log) == log[Len(log)]

\* The place of an event in the order in which events were persisted.
StoredAt(event) == CHOOSE i \in 1..Len(store) : store[i] = event

Stored(event) == \E i \in 1..Len(store) : store[i] = event

\* The place of a name in the registry.
Pos(n) == CHOOSE i \in 1..Len(registry) : registry[i] = n

\* A call of a handler was aborted by a collaborator.
Aborted == result \in {"CryptoError", "PersistenceError"}

\* ----------------------------------------------------------------- claims

\* C1: for every agent the first event of its log has previous_hash "genesis",
\* every later event has previous_hash equal to the digest of the event before
\* it in the same log, and chain_head is the digest of the last event of the
\* log, or "genesis" when the log is empty; in every reachable state, aborted
\* calls included.
C1_ChainIntegrity ==
  \A n \in Names :
    /\ \A i \in 1..Len(events[n]) :
         events[n][i].previous_hash =
           IF i = 1 THEN Genesis ELSE DigestOf(events[n][i - 1])
    /\ ChainHead(n) =
         IF events[n] = <<>> THEN Genesis ELSE DigestOf(Last(events[n]))

\* C1 witness: after an aborted call, a log holds session_start, handshake
\* events and both sides' events of stamps.
C1_Witness ==
  /\ started
  /\ Aborted
  /\ \E n \in Names :
       /\ \E i \in 1..Len(events[n]) : IsRole(events[n][i], "responder")
       /\ \E i \in 1..Len(events[n]) : IsType(events[n][i], T_handshake)
       /\ Len(events[n]) >= 4

\* The record of the k-th handshake names the pair (i, j) of registry places.
PairOf(k) == <<Pos(handshakes[k].agent_a), Pos(handshakes[k].agent_b)>>

\* C2: while the session is started, handshake_records holds exactly
\* N*(N-1)/2 entries, one for each unordered pair of distinct registered
\* agents, in ascending registration order (i, then j > i).
C2_OneRecordPerPair ==
  started =>
    /\ Len(handshakes) = (Len(registry) * (Len(registry) - 1)) \div 2
    /\ \A i \in 1..Len(registry) : \A j \in (i + 1)..Len(registry) :
         Cardinality({k \in 1..Len(handshakes) : PairOf(k) = <<i, j>>}) = 1
    /\ \A k \in 1..Len(handshakes) : \A l \in (k + 1)..Len(handshakes) :
         \/ PairOf(k)[1] < PairOf(l)[1]
         \/ PairOf(k)[1] = PairOf(l)[1] /\ PairOf(k)[2] < PairOf(l)[2]

\* C3: while the session is started, every agent's log holds exactly one
\* session_start event, and it comes before every handshake event of the log.
C3_OneSessionStartFirst ==
  started =>
    \A n \in Names :
      /\ Cardinality({i \in 1..Len(events[n]) :
                        IsType(events[n][i], T_session_start)}) = 1
      /\ \A i \in 1..Len(events[n]) : \A j \in 1..Len(events[n]) :
           IsType(events[n][i], T_session_start) /\ IsType(events[n][j], T_handshake)
             => i < j

\* C4: for every recorded HandshakeResult of a pair (A, B), A's log and B's
\* log each hold a handshake event, both built from one (proposal, response)
\* pair made by A and answered by B, both with the session's session_id, each
\* naming the other agent, and the record's event_a_hash and event_b_hash are
\* the digests of these two events.
C4_HandshakeInBothLogs ==
  \A k \in 1..Len(handshakes) :
    LET r == handshakes[k]
    IN \E i \in 1..Len(events[r.agent_a]) : \E j \in 1..Len(events[r.agent_b]) :
         LET ea == events[r.agent_a][i]
             eb == events[r.agent_b][j]
         IN /\ IsType(ea, T_handshake) /\ IsType(eb, T_handshake)
            /\ HasField(ea, K("proposal")) /\ HasField(eb, K("proposal"))
            /\ ea.payload[K("proposal")] = eb.payload[K("proposal")]
            /\ ea.payload[K("proposal")][2] = AgentId(r.agent_a)
            /\ HasField(ea, K("response")) /\ HasField(eb, K("response"))
            /\ ea.payload[K("response")] = eb.payload[K("response")]
            /\ ea.payload[K("response")][2] = AgentId(r.agent_b)
            /\ Field(ea, K_session_id, session_id)
            /\ Field(eb, K_session_id, session_id)
            /\ r.session_id = session_id
            /\ ea.agent_id = r.agent_a_id /\ eb.agent_id = r.agent_b_id
            /\ Field(ea, K_peer_name, Str(r.agent_b))
            /\ Field(eb, K_peer_name, Str(r.agent_a))
            /\ r.event_a_hash = DigestOf(ea)
            /\ r.event_b_hash = DigestOf(eb)

\* C4 witness: three agents, all three pairs recorded.
C4_Witness == started /\ Len(handshakes) = 3 /\ Len(registry) = 3

\* The event a call appended to the log of n at place k of the new log.
NewEvent(n, k) == events'[n][k]

\* C5: when a co-signed stamp(agent_name, event_type, payload, peer) completes,
\* the event appended to the initiator's log has event_type, my_role
\* "initiator" and the peer's agent_id as peer_agent_id; the event appended to
\* the responder's log has event_type + "_received", my_role "responder" and
\* the initiator's agent_id as peer_agent_id; and both carry one
\* interaction_hash, whatever the payload holds.
C5_CoSignedPair ==
  [][\A agent_name \in StampNames, peer \in StampNames,
        event_type \in EventTypes, payload \in Payloads :
       (/\ started
        /\ result' = "ok"
        /\ \E fuse \in 0..StampCalls(peer) :
             Stamp(agent_name, event_type, payload, peer, fuse))
       => LET ie == NewEvent(agent_name, Len(events[agent_name]) + 1)
              re == NewEvent(peer, Len(events'[peer]))
          IN /\ IsType(ie, event_type)
             /\ IsRole(ie, "initiator")
             /\ Field(ie, K_peer_agent_id, AgentId(peer))
             /\ IsType(re, Concat(event_type, "_received"))
             /\ IsRole(re, "responder")
             /\ Field(re, K_peer_agent_id, AgentId(agent_name))
             /\ HasField(ie, K_interaction_hash)
             /\ HasField(re, K_interaction_hash)
             /\ ie.payload[K_interaction_hash] = re.payload[K_interaction_hash]]_vars

\* C5 witness: a co-signed stamp between two agents has just completed.
C5_Witness ==
  /\ result = "ok"
  /\ \E x \in Names, y \in Names :
       /\ x # y
       /\ events[x] # <<>> /\ events[y] # <<>>
       /\ IsRole(Last(events[x]), "initiator")
       /\ IsRole(Last(events[y]), "responder")
       /\ IsType(Last(events[y]), <<"advice", "_received">>)

\* C6: when a co-signed stamp completes, the responder's new event carries as
\* peer_signature the signature of the initiator's event of the same call, and
\* the initiator's event was persisted and appended before the responder's;
\* and no stamp() call, completed or aborted, leaves a responder's event
\* without the initiator's event before it.
C6_PeerSignature ==
  [][\A agent_name \in StampNames \cap Names, peer \in StampNames \cap Names,
        event_type \in EventTypes, payload \in Payloads :
       (/\ started
        /\ events' # events
        /\ \E fuse \in 0..StampCalls(peer) :
             Stamp(agent_name, event_type, payload, peer, fuse))
       => LET ie == NewEvent(agent_name, Len(events[agent_name]) + 1)
              re == NewEvent(peer, Len(events'[peer]))
          IN /\ IsRole(ie, "initiator")
             /\ store'[Len(store) + 1] = ie
             /\ result' = "ok" =>
                  /\ IsRole(re, "responder")
                  /\ Field(re, K_peer_signature, ie.signature)
                  /\ Len(store') = Len(store) + 2
                  /\ store'[Len(store) + 2] = re
                  /\ agent_name = peer =>
                       Len(events'[peer]) = Len(events[peer]) + 2
             /\ result' # "ok" =>
                  /\ Len(store') = Len(store) + 1
                  /\ agent_name # peer => events'[peer] = events[peer]]_vars

\* C6 witness: a co-signed stamp between two agents has completed, and the
\* responder's event holds the signature of the initiator's event.
C6_Witness ==
  /\ result = "ok"
  /\ \E x \in Names, y \in Names :
       /\ x # y
       /\ events[x] # <<>> /\ events[y] # <<>>
       /\ IsRole(Last(events[x]), "initiator")
       /\ Field(Last(events[y]), K_peer_signature, Last(events[x]).signature)

\* C7: start() on a session that is started raises the state error and does
\* nothing else: no log, chain head, handshake record or started_at changes.
C7_SecondStartRejected ==
  [][(started /\ StartCall) =>
       /\ result' = "RuntimeError"
       /\ UNCHANGED <<events, previous_hash, store, digests, handshakes,
                      started_at, started>>]_vars

\* C7 witness: start() was turned away on a started session, later than the
\* first start.
C7_Witness ==
  started /\ result = "RuntimeError" /\ started_at # <<now>>

\* C8: while the session is not started, stamp(), end() and export() raise
\* the state error and change no log, chain head, handshake record or state.
C8_RejectedBeforeStart ==
  [][(~started /\ (StampCall \/ EndCall \/ Export)) =>
       /\ result' = "RuntimeError"
       /\ UNCHANGED <<events, previous_hash, store, digests, handshakes,
                      started_at, started>>]_vars

\* C8 witness: a call was turned away on a session that is not started and
\* whose logs are not empty: a start was aborted, or a member stamped, before.
C8_Witness ==
  /\ ~started
  /\ result = "RuntimeError"
  /\ \E n \in Names : events[n] # <<>>

\* end() has completed: every agent's log holds a session_end event.
EndCompleted ==
  started /\ \A n \in Names :
    \E i \in 1..Len(events[n]) : IsType(events[n][i], T_session_end)

\* C9: ended is terminal: once end() has completed, start(), stamp() and
\* end() are rejected and append nothing, so that no event ever follows an
\* agent's session_end event.
C9_EndedIsTerminal ==
  [][EndCompleted => UNCHANGED <<events, previous_hash>>]_vars

\* C10: on a started session, stamp() with an agent_name or a peer that is not
\* registered raises the lookup error and changes no log and no chain head.
C10_UnknownNameNoMutation ==
  [][\A agent_name \in StampNames, peer \in StampNames \cup {NoPeer},
        event_type \in EventTypes, payload \in Payloads :
       (/\ started
        /\ agent_name \notin Names \/ (peer # NoPeer /\ peer \notin Names)
        /\ \E fuse \in 0..StampCalls(peer) :
             Stamp(agent_name, event_type, payload, peer, fuse))
       => /\ result' = "KeyError"
          /\ UNCHANGED <<events, previous_hash, store, digests, handshakes>>]_vars

\* C10 witness: the lookup error was raised on a started session.
C10_Witness == started /\ result = "KeyError"

\* ------------------------------------------- stamp() over many payloads

\* Calls under SpecRedact: one start() and one stamp().
MaxRedactCalls == 2

\* The fields callers' payloads are made of: raw fields, fields already named
\* with a suffix, fields named like the ones the session writes itself, a raw
\* field whose digest goes under such a name, and a suffixed field with the
\* value of a raw one.
RedactItems ==
  { <<K("symbol"), Str("AAPL")>>,
    <<<<"note", "_id">>, Str("AAPL")>>,
    <<K("interaction"), Str("call")>>,
    <<<<"symbol", "_hash">>, H(Str("other"))>>,
    <<<<"order", "_id">>, Str("X1")>>,
    <<K_session_id, "sess_x">>,
    <<K_interaction_hash, H(Str("mine"))>>,
    <<K_peer_agent_id, Str("nobody")>>,
    <<K_event_type, Str("secret")>>,
    <<K_my_role, Str("boss")>> }

\* Dicts of up to two of these fields, in either insertion order.
WidePayloads ==
  {<<>>} \cup {<<a>> : a \in RedactItems}
         \cup {p \in RedactItems \X RedactItems : p[1] # p[2]}

\* The peers of StampWide: none, or the second registered agent.
WidePeers == {NoPeer} \cup {registry[i] : i \in {2} \cap DOMAIN registry}

\* stamp() by the first registered agent, alone or with the second as peer.
StampWide ==
  /\ Constructed
  /\ calls < MaxRedactCalls
  /\ \E payload \in WidePayloads, peer \in WidePeers :
       \E fuse \in 0..StampCalls(peer) :
         Stamp(registry[1], <<"advice">>, payload, peer, fuse)

NextRedact == StartCall \/ StampWide

SpecRedact == Init /\ [][NextRedact]_vars

\* The key ends in "_hash" or "_id".
PassesThrough(key) == EndsWith(key, "_hash") \/ EndsWith(key, "_id")

\* The keys stamp() itself writes into an event.
SessionKeys(cosigned) ==
  {K_event_type, K_session_id, K_aiss_profile}
    \cup IF cosigned
         THEN {K_interaction_hash, K_my_role, K_peer_agent_id, K_peer_signature}
         ELSE {}

\* The caller's fields are in the event the way the redaction rule says.
RedactedAsClaimed(payload, event) ==
  \A i \in 1..Len(payload) :
    LET key == payload[i][1]
        value == payload[i][2]
    IN IF ~PassesThrough(key) /\ key # K_session_id
       THEN /\ Field(event, Concat(key, "_hash"), H(value))
            /\ ~HasField(event, key)
            /\ \A k \in DOMAIN event.payload \ SessionKeys(TRUE) :
                 event.payload[k] # value
       ELSE Field(event, key, value)

\* The fields stamp() writes itself into the event of one side, with their
\* values: `peer` is the peer of the call, `responder` tells the peer's event
\* from the agent's, `ie` is the agent's event.
StampWrote(agent_name, event_type, peer, responder, ie) ==
  LET base ==
        Update(Update(Item(K_event_type,
                           IF responder THEN Concat(event_type, "_received")
                           ELSE event_type),
                      Item(K_session_id, session_id)),
               Item(K_aiss_profile, Str("AISS-1")))
      side ==
        Update(Update(Update(base,
                             Item(K_interaction_hash,
                                  H(<<"fstr", AgentId(agent_name), AgentId(peer), now>>))),
                      Item(K_my_role, Str(IF responder THEN "responder" ELSE "initiator"))),
               Item(K_peer_agent_id, AgentId(IF responder THEN agent_name ELSE peer)))
  IN IF peer = NoPeer THEN base
     ELSE IF responder THEN Update(side, Item(K_peer_signature, ie.signature))
     ELSE side

\* The key a caller's field is stored under, and the value stored there.
TargetKey(key) == IF PassesThrough(key) THEN key ELSE Concat(key, "_hash")

StoredValue(key, value) == IF PassesThrough(key) THEN value ELSE H(value)

\* The redaction rule with the overrides: the event holds the fields stamp()
\* writes, with the values stamp() gives them, and the caller's fields under
\* their target keys, and nothing else; of the caller's fields with one target
\* key the last one is stored, unless stamp() writes that key; and the raw
\* value of a field that is hashed is under no key of the event, unless the
\* payload has that very value in a field that is kept as is, under that key.
\* (session_id is left out of the search: it holds the session's id.)
RedactedWithOverrides(payload, event, wrote) ==
  LET key(i) == payload[i][1]
      value(i) == payload[i][2]
      isLast(i) ==
        \A j \in (i + 1)..Len(payload) : TargetKey(key(j)) # TargetKey(key(i))
  IN /\ DOMAIN event.payload =
          DOMAIN wrote \cup {TargetKey(key(i)) : i \in 1..Len(payload)}
     /\ \A k \in DOMAIN wrote : event.payload[k] = wrote[k]
     /\ \A i \in 1..Len(payload) :
          /\ (isLast(i) /\ TargetKey(key(i)) \notin DOMAIN wrote) =>
               event.payload[TargetKey(key(i))] = StoredValue(key(i), value(i))
          /\ ~PassesThrough(key(i)) =>
               \A k \in DOMAIN event.payload \ {K_session_id} :
                 event.payload[k] = value(i) =>
                   \E j \in 1..Len(payload) :
                     PassesThrough(key(j)) /\ key(j) = k /\ value(j) = value(i)

\* The events a call appended to the log of n.
Appended(n) ==
  {events'[n][k] : k \in (Len(events[n]) + 1)..Len(events'[n])}

C12_OneSessionId ==
  [][/\ session_id' = session_id
     /\ \A n \in Names : \A i \in 1..Len(events'[n]) :
          Field(events'[n][i], K_session_id, session_id)]_vars

\* C13: a session that construction accepts has a registry of at least 2
\* agents with pairwise distinct names, one per entry of the construction
\* list; construction with fewer than 2 entries fails; and no operation adds,
\* removes or replaces a registry entry afterwards.
C13_FixedRegistry ==
  [][/\ Len(agents) < 2 => ~Constructed
     /\ Constructed =>
          /\ Len(registry) >= 2
          /\ Len(registry) = Len(agents)
          /\ \A i \in 1..Len(registry) : registry[i] = agents[i]
          /\ \A i \in 1..Len(registry) : \A j \in 1..Len(registry) :
               registry[i] = registry[j] => i = j
     /\ registry' = registry]_vars

\* ------------------------------------------- the caller and the events view

\* Longest list the caller makes of a view.
MaxViewLen == 3

\* An entry of a view refers to the k-th dict of the owner's log, the very
\* object the log holds, or to a dict the caller made.
LogRef(k) == <<"log", k>>
OwnDict == <<"own">>

sessionVars == <<registry, session_id, started, started_at, handshakes,
                 previous_hash, store, digests, now, calls, result>>

\* member.events: self._events.copy(), a new list of the same dicts.
EventsAccessor(n) ==
  /\ Constructed
  /\ view' = [owner |-> n, items |-> [k \in 1..Len(events[n]) |-> LogRef(k)]]
  /\ UNCHANGED <<sessionVars, events, agents, threads>>

\* view.append({...})
ViewAppend ==
  /\ view # None
  /\ Len(view.items) < MaxViewLen
  /\ view' = [view EXCEPT !.items = Append(@, OwnDict)]
  /\ UNCHANGED <<sessionVars, events, agents, threads>>

\* del view[i]
ViewRemove(i) ==
  /\ view # None
  /\ i \in 1..Len(view.items)
  /\ view' = [view EXCEPT !.items =
                [k \in 1..(Len(@) - 1) |-> IF k < i THEN @[k] ELSE @[k + 1]]]
  /\ UNCHANGED <<sessionVars, events, agents, threads>>

\* view[i] = {...}
ViewReplace(i) ==
  /\ view # None
  /\ i \in 1..Len(view.items)
  /\ view' = [view EXCEPT !.items[i] = OwnDict]
  /\ UNCHANGED <<sessionVars, events, agents, threads>>

\* view[i]["payload"]["event_type"] = "forged": an assignment into the dict
\* the entry refers to, which for an entry of the log is the log's own dict.
ViewEditField(i) ==
  /\ view # None
  /\ i \in 1..Len(view.items)
  /\ events' = IF view.items[i] = OwnDict THEN events
               ELSE [events EXCEPT ![view.owner][view.items[i][2]].payload =
                       Update(@, Item(K_event_type, <<"forged">>))]
  /\ UNCHANGED <<sessionVars, agents, view, threads>>

CallerEdit ==
  \E i \in 1..MaxViewLen : ViewRemove(i) \/ ViewReplace(i) \/ ViewEditField(i)

EventsCall == \E n \in Names : EventsAccessor(n)

\* A session is started, and a caller reads the logs and works on what it got.
NextView == StartNoFailure \/ EventsCall \/ ViewAppend \/ CallerEdit

\* Two agents, A and B.
InitView == Init /\ agents = <<"A", "B">>

SpecView == InitView /\ [][NextView]_vars

\* C14: whatever a caller does to the list the events accessor returned
\* (adding, removing or replacing entries, editing a field of an event in
\* it), the agent's log holds the same events with the same field values and
\* chain_head is still the digest of the last event of the log.
C14_ViewIsACopy ==
  [][(ViewAppend \/ CallerEdit) =>
       /\ events' = events
       /\ previous_hash' = previous_hash
       /\ \A n \in Names :
            events'[n] # <<>> =>
              previous_hash'[n] = ComputeEventHash(digests', Last(events'[n]))]_vars

\* The pairs of registry places in the order start() takes them, and the
\* place of a pair in that order.
PairsInOrder ==
  {pr \in (DOMAIN registry) \X (DOMAIN registry) : pr[1] < pr[2]}

Rank(pr) ==
  1 + Cardinality({q \in PairsInOrder :
                     q[1] < pr[1] \/ (q[1] = pr[1] /\ q[2] < pr[2])})

IsPrefix(old, new) ==
  Len(old) <= Len(new) /\ \A k \in 1..Len(old) : new[k] = old[k]

\* The handshake events a call appended to the log of n.
AppendedHandshakes(n) ==
  {k \in (Len(events[n]) + 1)..Len(events'[n]) : IsType(events'[n][k], T_handshake)}

\* start() alone, failing at any collaborator call and retried, under a clock
\* that moves on: every state a session that is not started yet can be in,
\* short of what a caller stamps straight through a member.
NextStart == Tick \/ StartCall

SpecStart == Init /\ [][NextStart]_vars

\* C15: when signing or persisting fails on either side of a pair during
\* start(), the error comes out of start(), the pairs before the failing one
\* are recorded and no other, no later pair is attempted, the session is not
\* started, and what was appended before the failure stays: every agent's
\* session_start, the handshake events of the earlier pairs, and the
\* initiator's event of the failing pair when the failure is on the
\* responder's side.
C15_HandshakeFailure ==
  [][\A fuse \in 1..StartCalls(Len(registry)) :
       (/\ ~started
        /\ events' # events
        /\ fuse > 2 * Len(registry)
        /\ \E clock \in StartClocks(fuse) : Start(fuse, clock))
       => LET step == fuse - 2 * Len(registry) - 1
              done == step \div 6
              onResponder == (step % 6) + 1 >= 5
              failing == CHOOSE pr \in PairsInOrder : Rank(pr) = done + 1
          IN /\ result' \in {"CryptoError", "PersistenceError"}
             /\ ~started'
             /\ IsPrefix(handshakes, handshakes')
             /\ Len(handshakes') = Len(handshakes) + done
             /\ \A k \in 1..done :
                  LET r == handshakes'[Len(handshakes) + k]
                  IN Rank(<<Pos(r.agent_a), Pos(r.agent_b)>>) = k
             /\ \A n \in Names :
                  /\ IsPrefix(events[n], events'[n])
                  /\ Len(events'[n]) > Len(events[n])
                  /\ IsType(events'[n][Len(events[n]) + 1], T_session_start)
                  /\ Cardinality(AppendedHandshakes(n)) =
                       Cardinality({pr \in PairsInOrder :
                                      Rank(pr) <= done /\ Pos(n) \in {pr[1], pr[2]}})
                       + (IF onResponder /\ Pos(n) = failing[1] THEN 1 ELSE 0)
                  /\ Len(events'[n]) =
                       Len(events[n]) + 1 + Cardinality(AppendedHandshakes(n))]_vars

\* C15 witness: of three agents, start() failed on the responder's side of the
\* second pair: one pair is recorded, a third handshake event sits in the
\* initiator's log, and the session is not started.
C15_Witness ==
  /\ ~started
  /\ Aborted
  /\ Len(registry) = 3
  /\ Len(handshakes) = 1
  /\ Len(events[registry[1]]) = 3
  /\ Len(events[registry[2]]) = 2
  /\ Len(events[registry[3]]) = 1

\* Every event of every log, and the event every chain head refers to, is in
\* the store, and the store holds nothing that is in no log.
AllPersisted ==
  /\ \A n \in Names : \A i \in 1..Len(events[n]) : Stored(events[n][i])
  /\ \A n \in Names :
       previous_hash[n] # None =>
         \E i \in 1..Len(store) : DigestOf(store[i]) = previous_hash[n]
  /\ Len(store) = TotalEvents(events, registry)

\* C16: an event is persisted before chain_head and the log are updated, and
\* these are updated only when persisting succeeded: after every step each
\* event of a log and the event chain_head refers to are in the store, and a
\* stamp whose persist fails, through the session or straight through the
\* member, leaves the chain_head and the log of the agent it was stamping for
\* as they were.
C16_PersistBeforeUpdate ==
  [][/\ AllPersisted'
     /\ \A agent_name \in StampNames \cap Names,
          peer \in (StampNames \cap Names) \cup {NoPeer},
          event_type \in EventTypes, payload \in Payloads :
          /\ (/\ started
              /\ result' = "PersistenceError"
              /\ Stamp(agent_name, event_type, payload, peer, 2))
             => /\ events' = events
                /\ previous_hash' = previous_hash
          /\ (/\ started
              /\ result' = "PersistenceError"
              /\ peer \notin {NoPeer, agent_name}
              /\ Stamp(agent_name, event_type, payload, peer, 4))
             => /\ events'[peer] = events[peer]
                /\ previous_hash'[peer] = previous_hash[peer]
                /\ Len(events'[agent_name]) = Len(events[agent_name]) + 1
     /\ \A name \in MemberNames \cap Names, event_type \in EventTypes,
          payload \in MemberPayloads, sid \in {session_id, OtherSession} :
          (/\ result' = "PersistenceError"
           /\ AgentMemberStamp(name, event_type, payload, sid, None, None, 2))
          => /\ events' = events
             /\ previous_hash' = previous_hash]_vars

\* C16 witness: persisting the responder's event of a co-signed stamp failed
\* after the initiator's event was appended.
C16_Witness ==
  /\ started
  /\ result = "PersistenceError"
  /\ \E x \in Names :
       /\ events[x] # <<>>
       /\ IsRole(Last(events[x]), "initiator")
       /\ \A y \in Names : \A j \in 1..Len(events[y]) :
            ~IsRole(events[y][j], "responder")

\* The sessions built from lists of entries with distinct names.
InitDistinct == Init /\ Len(registry) = Len(agents)

SpecDistinct == InitDistinct /\ [][Next]_vars

\* The logs and chain heads of the agents outside `touched` are unchanged.
OthersUntouched(touched) ==
  \A n \in Names \ touched :
    events'[n] = events[n] /\ previous_hash'[n] = previous_hash[n]

\* C17: every operation leaves each agent's log a prefix of its new log; a
\* successful unilateral stamp on X appends exactly one event to X's log and
\* leaves every other log and chain_head unchanged; a successful co-signed
\* stamp with initiator X and responder Y appends exactly one event to X's log
\* and exactly one to Y's log and leaves every other log and chain_head
\* unchanged; summary() and export() change no log, chain_head, handshake
\* record or session state.
C17_AppendOnlyFrames ==
  [][/\ \A n \in Names : IsPrefix(events[n], events'[n])
     /\ (SummaryCall \/ Export) =>
          UNCHANGED <<events, previous_hash, handshakes, store, registry,
                      session_id, started, started_at>>
     /\ \A x \in StampNames, y \in StampNames \cup {NoPeer},
          event_type \in EventTypes, payload \in Payloads :
          (/\ started
           /\ result' = "ok"
           /\ \E fuse \in 0..StampCalls(y) : Stamp(x, event_type, payload, y, fuse))
          => IF y = NoPeer
             THEN /\ Len(events'[x]) = Len(events[x]) + 1
                  /\ OthersUntouched({x})
             ELSE /\ Len(events'[x]) = Len(events[x]) + 1
                  /\ Len(events'[y]) = Len(events[y]) + 1
                  /\ OthersUntouched({x, y})]_vars

\* sum of the event_count values of a summary
RECURSIVE SumEventCounts(_, _)
SumEventCounts(summary, names) ==
  IF names = {} THEN 0
  ELSE LET n == CHOOSE m \in names : TRUE
       IN summary.agents[n].event_count + SumEventCounts(summary, names \ {n})

\* C18: a successful end() on a started session appends exactly one
\* session_end event to every agent's log; all of them carry one total_events
\* value, the total event count across all agents, which is the total_events
\* of the summary end() returns, itself the sum of the event_count values of
\* that summary.
C18_SessionEndTotals ==
  [][(/\ started
      /\ result' = "ok"
      /\ \E fuse \in 0..(2 * Len(registry)) : End(fuse))
     => /\ \A n \in Names :
             /\ Len(events'[n]) = Len(events[n]) + 1
             /\ IsPrefix(events[n], events'[n])
             /\ IsType(Last(events'[n]), T_session_end)
             /\ Field(Last(events'[n]), K("total_events"), Summary'.total_events)
        /\ Summary'.total_events = SumEventCounts(Summary', Names)]_vars

\* ------------------------------------------ two threads stamping one agent

Threads == {1, 2}

\* What each thread stamps.
ThreadEventType(t) == IF t = 1 THEN <<"advice">> ELSE <<"trade">>

\* The caller starts two threads that each call stamp(target, ...) with no
\* peer; with `mutex` they take a lock of the agent around the call.
Spawn(target, mutex, payload) ==
  /\ started
  /\ threads = None
  /\ threads' = [mutex |-> mutex, target |-> target, payload |-> payload,
                 pc |-> [t \in Threads |-> "ready"],
                 event |-> [t \in Threads |-> None]]
  /\ UNCHANGED <<sessionVars, events, agents, view>>

\* The lock is free for thread t: no other thread is inside stamp().
LockFree(t) ==
  \A u \in Threads \ {t} : threads.pc[u] \in {"ready", "done"}

\* Lines 377-127: the checks, the redaction, and aiss.stamp_event with the
\* chain head as it is read now.
ThreadSign(t) ==
  /\ threads # None
  /\ threads.pc[t] = "ready"
  /\ threads.mutex => LockFree(t)
  /\ threads' = [threads EXCEPT
                   !.pc[t] = "signed",
                   !.event[t] = MemberEvent(World(0), threads.target,
                                            ThreadEventType(t),
                                            SafePayload(threads.payload),
                                            session_id, None, None)]
  /\ UNCHANGED <<sessionVars, events, agents, view>>

\* Line 129: aiss.store_event(event)
ThreadPersist(t) ==
  /\ threads # None
  /\ threads.pc[t] = "signed"
  /\ threads' = [threads EXCEPT !.pc[t] = "stored"]
  /\ store' = StoreEvent(World(0), threads.event[t]).store
  /\ UNCHANGED <<registry, session_id, started, started_at, handshakes,
                 previous_hash, events, digests, now, calls, result, agents, view>>

\* Line 130: self.previous_hash = aiss.compute_event_hash(event)
ThreadMoveHead(t) ==
  /\ threads # None
  /\ threads.pc[t] = "stored"
  /\ threads' = [threads EXCEPT !.pc[t] = "moved"]
  /\ digests' = Intern(digests, threads.event[t])
  /\ previous_hash' = [previous_hash EXCEPT ![threads.target] =
                         ComputeEventHash(digests', threads.event[t])]
  /\ UNCHANGED <<registry, session_id, started, started_at, handshakes,
                 events, store, now, calls, result, agents, view>>

\* Line 131: self._events.append(event), and the return.
ThreadAppend(t) ==
  /\ threads # None
  /\ threads.pc[t] = "moved"
  /\ threads' = [threads EXCEPT !.pc[t] = "done"]
  /\ events' = [events EXCEPT ![threads.target] = Append(@, threads.event[t])]
  /\ UNCHANGED <<sessionVars, agents, view>>

SpawnCall ==
  \E target \in Names, mutex \in BOOLEAN, payload \in Payloads :
    Spawn(target, mutex, payload)

ThreadStep ==
  \E t \in Threads :
    ThreadSign(t) \/ ThreadPersist(t) \/ ThreadMoveHead(t) \/ ThreadAppend(t)

NextRace == StartNoFailure \/ SpawnCall \/ ThreadStep

SpecRace == InitDistinct /\ [][NextRace]_vars

\* Two events of the log of n have one previous_hash: the chain is forked.
Forked(n) ==
  \E i \in 1..Len(events[n]) : \E j \in (i + 1)..Len(events[n]) :
    events[n][i].previous_hash = events[n][j].previous_hash

\* C19: when each of two stamp operations on one agent runs as a whole before
\* or after the other (one writer per agent), no log ever holds two events
\* with one previous_hash; without that, the two can both read the chain head
\* before either moves it, and the log then holds two events with one
\* previous_hash (the witness).
C19_OneWriterNoFork ==
  (threads # None /\ threads.mutex) =>
    /\ \A n \in Names : ~Forked(n)
    /\ (\A t \in Threads : threads.pc[t] = "done") => C1_ChainIntegrity

\* C19 witness: two threads without a lock have both returned from stamp(),
\* and the log of the agent they stamped is forked and breaks the chain.
C19_Witness ==
  /\ threads # None
  /\ ~threads.mutex
  /\ \A t \in Threads : threads.pc[t] = "done"
  /\ Forked(threads.target)
  /\ ~C1_ChainIntegrity

\* The places <<n, k>> of the events of the logs `ev` that carry the
\* interaction_hash h in the role `role`.
Carrying(ev, h, role) ==
  {pl \in UNION {{<<n, k>> : k \in 1..Len(ev[n])} : n \in Names} :
     /\ Field(ev[pl[1]][pl[2]], K_interaction_hash, h)
     /\ IsRole(ev[pl[1]][pl[2]], role)}

\* C20: an interaction_hash names one interaction: the interaction_hash of a
\* completed co-signed stamp is in no event of an earlier call, also of a call
\* between the same two agents or at the same clock reading, and is in exactly
\* two events overall, one with my_role "initiator" and one with my_role
\* "responder", in the logs of two different agents.
C20_OneInteractionPerHash ==
  [][\A x \in StampNames, y \in StampNames,
        event_type \in EventTypes, payload \in Payloads :
       (/\ started
        /\ result' = "ok"
        /\ \E fuse \in 0..StampCalls(y) : Stamp(x, event_type, payload, y, fuse))
       => LET h == NewEvent(x, Len(events[x]) + 1).payload[K_interaction_hash]
          IN /\ Carrying(events, h, "initiator") = {}
             /\ Carrying(events, h, "responder") = {}
             /\ Cardinality(Carrying(events', h, "initiator")) = 1
             /\ Cardinality(Carrying(events', h, "responder")) = 1
             /\ \A i \in Carrying(events', h, "initiator") :
                  \A r \in Carrying(events', h, "responder") : i[1] # r[1]]_vars

====
